---- MODULE Spec2Model ----
(***************************************************************************)
(* point_cloud.py: conversion of ORB-SLAM map points and trajectories to   *)
(* ASCII PLY, and the PLY reader of the 3D viewer.                         *)
(*                                                                         *)
(* Text is modelled at the granularity of lexical symbols: a line is a     *)
(* sequence of symbols, a symbol being a token (a decimal number text, an  *)
(* integer text, a non-numeric word) or a separator (one space, one tab,   *)
(* the two-character ", ").  Numbers are fixed-point: a decimal text or a  *)
(* float64 carries its value in millionths (the 6 decimals of %f).         *)
(***************************************************************************)
EXTENDS Integers, Sequences, FiniteSets, TLC

\* ---------------------------------------------------------------- bounds
\* Largest number of lines after the header line of a map-point file.
MaxRows == 3
\* Largest number of lines of a trajectory file.
MaxPoses == 2

\* ------------------------------------------------------------- constants
Micro == 1000000
LightGreenR == 144
LightGreenG == 238
LightGreenB == 144
TxCol == 4
TyCol == 8
TzCol == 12

\* ------------------------------------------------------------------ text
SP == [k |-> "sp", s |-> " ", v |-> 0]
TAB == [k |-> "tab", s |-> "TAB", v |-> 0]
DELIM == [k |-> "delim", s |-> ", ", v |-> 0]
Dec(v) == [k |-> "dec", s |-> "", v |-> v]
IntTxt(n) == [k |-> "int", s |-> "", v |-> n]
Word(w) == [k |-> "word", s |-> w, v |-> 0]

IsSpace(c) == c.k \in {"sp", "tab"}
IsToken(c) == c.k \in {"dec", "int", "word"}

\* The text of words separated by single spaces.
RECURSIVE Spaced(_)
Spaced(toks) ==
    IF Len(toks) <= 1 THEN toks
    ELSE <<Head(toks), SP>> \o Spaced(Tail(toks))

\* str.strip(): leading and trailing whitespace removed.
RECURSIVE LStrip(_)
LStrip(line) ==
    IF line # <<>> /\ IsSpace(Head(line)) THEN LStrip(Tail(line)) ELSE line

RECURSIVE RStrip(_)
RStrip(line) ==
    IF line # <<>> /\ IsSpace(line[Len(line)])
    THEN RStrip(SubSeq(line, 1, Len(line) - 1))
    ELSE line

Strip(line) == RStrip(LStrip(line))

\* str.split(sep) with an explicit separator: every occurrence of sep cuts,
\* so two adjacent separators give an empty piece and "" gives [""].
RECURSIVE Split(_, _)
Split(line, sep) ==
    IF \A i \in 1..Len(line) : line[i] # sep THEN <<line>>
    ELSE LET i == CHOOSE n \in 1..Len(line) :
                      line[n] = sep /\ \A j \in 1..(n - 1) : line[j] # sep
         IN <<SubSeq(line, 1, i - 1)>> \o Split(SubSeq(line, i + 1, Len(line)), sep)

\* str.split() without separator: runs of whitespace cut, no empty pieces.
RECURSIVE SplitWs(_)
SplitWs(line) ==
    LET l == LStrip(line) IN
    IF l = <<>> THEN <<>>
    ELSE IF \A i \in 1..Len(l) : ~IsSpace(l[i]) THEN <<l>>
    ELSE LET i == CHOOSE n \in 1..Len(l) :
                      IsSpace(l[n]) /\ \A j \in 1..(n - 1) : ~IsSpace(l[j])
         IN <<SubSeq(l, 1, i - 1)>> \o SplitWs(SubSeq(l, i + 1, Len(l)))

\* ---------------------------------------------------------------- floats
Flt(v) == [nan |-> FALSE, v |-> v]
NaN == [nan |-> TRUE, v |-> 0]

\* float(text): surrounding whitespace is ignored, the rest must be one
\* numeric text ("nan" is one).
PyFloat(piece) ==
    LET t == Strip(piece) IN
    IF Len(t) = 1 /\ t[1].k = "dec" THEN [ok |-> TRUE, val |-> Flt(t[1].v)]
    ELSE IF Len(t) = 1 /\ t[1].k = "int" THEN [ok |-> TRUE, val |-> Flt(t[1].v * Micro)]
    ELSE IF t = <<Word("nan")>> THEN [ok |-> TRUE, val |-> NaN]
    ELSE [ok |-> FALSE, val |-> NaN]

\* '%f' % value: fixed notation, 6 decimals.
FmtF(f) == IF f.nan THEN Word("nan") ELSE Dec(f.v)

\* '%d' % value: the integer part.
FmtD(f) == IntTxt(f.v \div Micro)

\* numpy float32: a float64 rounded to a 24-bit significand.  The value is
\* m * 15625 / 2^s millionths; coordinates of the model are 0 or lie in
\* [1, 2048), so that the binade e is in 0..10 and s = 17 - e.
F32Grid == Micro \div 64
Binade(v) == CHOOSE e \in 0..10 : 2^e * Micro <= v /\ v < 2^(e + 1) * Micro

F32(f) ==
    IF f.nan THEN [nan |-> TRUE, m |-> 0, s |-> 0]
    ELSE IF f.v = 0 THEN [nan |-> FALSE, m |-> 0, s |-> 0]
    ELSE LET s == 17 - Binade(f.v)
             q == f.v \div F32Grid
             r == f.v % F32Grid
         IN [nan |-> FALSE,
             m |-> q * 2^s + ((r * 2^s + (F32Grid - 1) \div 2) \div F32Grid),
             s |-> s]

\* ---------------------------------------------------------- numpy arrays
\* An array keeps its rows and the number of dimensions left after
\* numpy.squeeze: an axis of length 1 is dropped, an empty result is 1-D.
Squeezed(n, ncols) ==
    IF n = 0 THEN 1
    ELSE (IF n = 1 THEN 0 ELSE 1) + (IF ncols = 1 THEN 0 ELSE 1)

NoArray == [ndim |-> 0, rows |-> <<>>]

\* a[:, j] (j counted from 0): needs two axes and more than j columns.
CanIndexColumn(a, j) == a.ndim = 2 /\ j < Len(a.rows[1])
Column(a, j) == [i \in 1..Len(a.rows) |-> a.rows[i][j + 1]]

\* numpy.column_stack of equally long 1-D arrays.
ColumnStack(cols) ==
    IF cols = <<>> THEN <<>>
    ELSE [i \in 1..Len(cols[1]) |-> [j \in 1..Len(cols) |-> cols[j][i]]]

\* numpy.genfromtxt(lines, delimiter=", ") after skip_header: blank lines
\* are skipped, a line is cut at every ", ", the first line kept fixes the
\* number of columns, a line with another number of columns is an error,
\* and a field that float() rejects becomes nan.
IsBlank(line) == \A i \in 1..Len(line) : line[i].k = "sp"
NotBlank(line) == ~IsBlank(line)
LooseFloat(piece) == IF PyFloat(piece).ok THEN PyFloat(piece).val ELSE NaN
InvalidRaise(fields) == \E i \in 1..Len(fields) : Len(fields[i]) # Len(fields[1])

\* genfromtxt(..., invalid_raise=False): lines with another number of
\* columns than the first are dropped instead of raising.
GenfromtxtSkipInvalid(lines) ==
    LET kept == SelectSeq(lines, NotBlank)
        all == [i \in 1..Len(kept) |-> Split(kept[i], DELIM)]
        ncols == IF all = <<>> THEN 0 ELSE Len(all[1])
        fields == SelectSeq(all, LAMBDA f : Len(f) = ncols)
    IN [err |-> "none",
        arr |-> [ndim |-> Squeezed(Len(fields), ncols),
                 rows |-> [i \in 1..Len(fields) |->
                             [j \in 1..ncols |-> LooseFloat(fields[i][j])]]]]

Genfromtxt(lines) ==
    LET kept == SelectSeq(lines, NotBlank)
        fields == [i \in 1..Len(kept) |-> Split(kept[i], DELIM)]
        ncols == IF fields = <<>> THEN 0 ELSE Len(fields[1])
    IN IF InvalidRaise(fields)
       THEN [err |-> "ValueError", arr |-> NoArray]
       ELSE [err |-> "none",
             arr |-> [ndim |-> Squeezed(Len(fields), ncols),
                      rows |-> [i \in 1..Len(fields) |->
                                  [j \in 1..ncols |-> LooseFloat(fields[i][j])]]]]

\* numpy.loadtxt(lines, dtype=float32): blank lines are skipped, a line is
\* cut at runs of whitespace, every field must be numeric and every line
\* must have as many fields as the first.
AllNumeric(fields) ==
    \A i \in 1..Len(fields) : \A j \in 1..Len(fields[i]) : PyFloat(fields[i][j]).ok
Ragged(fields) == \E i \in 1..Len(fields) : Len(fields[i]) # Len(fields[1])

Loadtxt(lines) ==
    LET kept == SelectSeq(lines, NotBlank)
        fields == [i \in 1..Len(kept) |-> SplitWs(kept[i])]
        ncols == IF fields = <<>> THEN 0 ELSE Len(fields[1])
    IN IF ~AllNumeric(fields) \/ Ragged(fields)
       THEN [err |-> "ValueError", arr |-> NoArray]
       ELSE [err |-> "none",
             arr |-> [ndim |-> Squeezed(Len(fields), ncols),
                      rows |-> [i \in 1..Len(fields) |->
                                  [j \in 1..ncols |-> F32(PyFloat(fields[i][j]).val)]]]]

\* ------------------------------------------------------------ PLY output
\* format % args with one %d: a tuple on the right supplies the arguments
\* one by one, anything else is the single argument.
PyTuple(items) == [tuple |-> TRUE, items |-> items]
PyInt(n) == [tuple |-> FALSE, items |-> <<n>>]
PercentD(arg) ==
    IF Len(arg.items) = 1
    THEN [err |-> "none", txt |-> IntTxt(arg.items[1])]
    ELSE [err |-> "TypeError", txt |-> Word("")]

PlyHeaderXYZ(count) ==
    << <<Word("ply")>>,
       Spaced(<<Word("format"), Word("ascii"), Dec(Micro)>>),
       Spaced(<<Word("element"), Word("vertex"), count>>),
       Spaced(<<Word("property"), Word("float"), Word("x")>>),
       Spaced(<<Word("property"), Word("float"), Word("y")>>),
       Spaced(<<Word("property"), Word("float"), Word("z")>>) >>

PlyHeaderRGB ==
    << Spaced(<<Word("property"), Word("uchar"), Word("red")>>),
       Spaced(<<Word("property"), Word("uchar"), Word("green")>>),
       Spaced(<<Word("property"), Word("uchar"), Word("blue")>>) >>

EndHeader == <<Word("end_header")>>

\* fmt % tuple(row) for the two formats of the converters.
FmtXYZ(row) == Spaced(<<FmtF(row[1]), FmtF(row[2]), FmtF(row[3])>>)
FmtXYZRGB(row) ==
    Spaced(<<FmtF(row[1]), FmtF(row[2]), FmtF(row[3]),
             FmtD(row[4]), FmtD(row[5]), FmtD(row[6])>>)

\* numpy.savetxt(path, X, fmt, header, comments=''): the file is created or
\* truncated, the header is written, then one line per row of X.
NoFile == [exists |-> FALSE, lines |-> <<>>]
File(lines) == [exists |-> TRUE, lines |-> lines]
SavetxtXYZ(X, header) == File(header \o [i \in 1..Len(X) |-> FmtXYZ(X[i])])
SavetxtXYZRGB(X, header) == File(header \o [i \in 1..Len(X) |-> FmtXYZRGB(X[i])])

\* ---------------------------------------------------------------- inputs
\* Text joined with a separator that may differ at one place: before the
\* token with (0-based) index at, the separator is gap instead of sep.
RECURSIVE JoinFrom(_, _, _, _, _)
JoinFrom(toks, i, sep, at, gap) ==
    IF i > Len(toks) THEN <<>>
    ELSE (IF i = 1 THEN <<>> ELSE IF i - 1 = at THEN gap ELSE sep)
         \o <<toks[i]>> \o JoinFrom(toks, i + 1, sep, at, gap)

Join(toks, sep) == JoinFrom(toks, 1, <<sep>>, 0, <<sep>>)

\* Map-point rows: "pos_x, pos_y, pos_z[, extra]".
MapKinds == {"ok3", "ok4", "short2", "short1", "blank", "bad2"}
MapValues(t) ==
    IF t = 1 THEN <<1500000, 2500000, 3500000, 9000000>>
    ELSE <<20000001, 10000000, 30000000, 7000000>>

MapRow(kind, t) ==
    LET a == MapValues(t) IN
    CASE kind = "ok3" -> Join(<<Dec(a[1]), Dec(a[2]), Dec(a[3])>>, DELIM)
      [] kind = "ok4" -> Join(<<Dec(a[1]), Dec(a[2]), Dec(a[3]), Dec(a[4])>>, DELIM)
      [] kind = "short2" -> Join(<<Dec(a[1]), Dec(a[2])>>, DELIM)
      [] kind = "short1" -> <<Dec(a[1])>>
      [] kind = "bad2" -> Join(<<Dec(a[1]), Word("abc"), Dec(a[3])>>, DELIM)
      [] OTHER -> <<>>

MapHeaderLine == Join(<<Word("pos_x"), Word("pos_y"), Word("pos_z")>>, DELIM)
MapRows == {MapRow("ok3", 2)} \cup {MapRow(k, 1) : k \in MapKinds}

\* Trajectory lines: "path R00 R01 R02 t0 R10 R11 R12 t1 R20 R21 R22 t2".
PoseKinds == {"ok", "trail", "dbl2", "dbl4", "dbl12", "tab2", "short",
              "shortdbl", "blank", "bad4", "bad12"}
PoseTokens(t) ==
    IF t = 1
    THEN <<Word("img.png"), IntTxt(1), IntTxt(0), IntTxt(0), IntTxt(10),
           IntTxt(0), IntTxt(1), IntTxt(0), IntTxt(20),
           IntTxt(0), IntTxt(0), IntTxt(1), IntTxt(30)>>
    ELSE <<Word("img2.png"), IntTxt(0), IntTxt(1), IntTxt(0), Dec(1500000),
           IntTxt(1), IntTxt(0), IntTxt(0), Dec(2500000),
           IntTxt(0), IntTxt(0), IntTxt(1), Dec(20000001)>>

PoseLine(kind, t) ==
    LET a == PoseTokens(t)
        one == <<SP>>
        two == <<SP, SP>>
    IN
    CASE kind = "ok" -> Join(a, SP)
      [] kind = "trail" -> Join(a, SP) \o <<SP>>
      [] kind = "dbl2" -> JoinFrom(a, 1, one, 2, two)
      [] kind = "dbl4" -> JoinFrom(a, 1, one, 4, two)
      [] kind = "dbl12" -> JoinFrom(a, 1, one, 12, two)
      [] kind = "tab2" -> JoinFrom(a, 1, one, 2, <<TAB>>)
      [] kind = "short" -> Join(SubSeq(a, 1, 12), SP)
      [] kind = "shortdbl" -> JoinFrom(SubSeq(a, 1, 12), 1, one, 2, two)
      [] kind = "bad4" -> Join([a EXCEPT ![5] = Word("abc")], SP)
      [] kind = "bad12" -> Join([a EXCEPT ![13] = Word("abc")], SP)
      [] OTHER -> <<>>

PoseLines == {PoseLine("ok", 2)} \cup {PoseLine(k, 1) : k \in PoseKinds}

SeqsUpTo(S, n) == UNION {[1..m -> S] : m \in 0..n}

MapFiles ==
    {NoFile, File(<<>>)}
        \cup {File(<<MapHeaderLine>> \o rows) : rows \in SeqsUpTo(MapRows, MaxRows)}
TrajectoryFiles ==
    {NoFile} \cup {File(ls) : ls \in SeqsUpTo(PoseLines, MaxPoses)}

\* What may lie at the output path before the first call.
NumLine(a, b, c) == Join(<<IntTxt(a), IntTxt(b), IntTxt(c)>>, SP)
PriorFiles ==
    { NoFile,
      File(<<NumLine(1, 2, 3), NumLine(4, 5, 6)>>),
      File(PlyHeaderXYZ(IntTxt(2)) \o <<NumLine(1, 2, 3), NumLine(4, 5, 6)>>),
      File(PlyHeaderXYZ(IntTxt(2)) \o <<EndHeader, NumLine(1, 2, 3),
                                        Join(<<IntTxt(4), IntTxt(5)>>, SP)>>) }

\* ----------------------------------------------------------------- state
VARIABLES
    pc,          \* position in the running function, "idle" between calls
    fn,          \* the function running or last run
    calls,       \* the functions called so far
    input,       \* the file at the converter's input path
    inOpen,      \* a file handle opened for reading is open
    disk,        \* the file at the output path
    before,      \* the file at the output path when the call began
    err,         \* the exception that ended the call, or "none"
    coords,      \* save_pointcloud_from_ORB_SLAM: coords
    x, y, z,     \* the coordinate columns
    rgb,         \* save_trajectory_from_ORB_SLAM: r, g, b
    header,      \* ply_header, as lines
    lines,       \* lines read by readlines()
    header_end,  \* plot_3d_point_cloud: header_end
    points,      \* plot_3d_point_cloud: points
    shown        \* the scatter plot was drawn

vars == <<pc, fn, calls, input, inOpen, disk, before, err, coords, x, y, z,
          rgb, header, lines, header_end, points, shown>>

locals == <<coords, x, y, z, rgb, header, lines, header_end, points, shown>>

Init ==
    /\ pc = "idle"
    /\ fn = "none"
    /\ calls = <<>>
    /\ input = NoFile
    /\ inOpen = FALSE
    /\ disk \in PriorFiles
    /\ before = disk
    /\ err = "none"
    /\ coords = NoArray
    /\ x = <<>> /\ y = <<>> /\ z = <<>>
    /\ rgb = <<>>
    /\ header = <<>>
    /\ lines = <<>>
    /\ header_end = 0
    /\ points = NoArray
    /\ shown = FALSE

\* A call starts with fresh locals.
Enter(f, first, file) ==
    /\ pc = "idle"
    /\ pc' = first
    /\ fn' = f
    /\ calls' = Append(calls, f)
    /\ input' = file
    /\ before' = disk
    /\ err' = "none"
    /\ coords' = NoArray
    /\ x' = <<>> /\ y' = <<>> /\ z' = <<>>
    /\ rgb' = <<>>
    /\ header' = <<>>
    /\ lines' = <<>>
    /\ header_end' = 0
    /\ points' = NoArray
    /\ shown' = FALSE
    /\ UNCHANGED <<inOpen, disk>>

\* An exception propagates to the caller.
Raise(e) == pc' = "idle" /\ err' = e

\* ------------------------------------------ save_pointcloud_from_ORB_SLAM
CallPointcloud ==
    /\ calls = <<>>
    /\ \E f \in MapFiles : Enter("pointcloud", "pc_open", f)

\* genfromtxt opens the input path.
PcOpen ==
    /\ pc = "pc_open"
    /\ IF input.exists
       THEN pc' = "pc_genfromtxt" /\ inOpen' = TRUE /\ UNCHANGED err
       ELSE Raise("FileNotFoundError") /\ UNCHANGED inOpen
    /\ UNCHANGED <<fn, calls, input, disk, before, locals>>

\* genfromtxt skips the header line, reads and converts the rest, and
\* closes the file.
SkipHeader(ls) == IF ls = <<>> THEN <<>> ELSE Tail(ls)

\* The output file opened for writing before the input is parsed.
PcGenfromtxtOutputFirst ==
    /\ pc = "pc_genfromtxt"
    /\ LET r == Genfromtxt(SkipHeader(input.lines)) IN
       IF r.err = "none"
       THEN pc' = "pc_index" /\ coords' = r.arr /\ UNCHANGED err
       ELSE Raise(r.err) /\ UNCHANGED coords
    /\ inOpen' = FALSE
    /\ disk' = File(<<>>)
    /\ UNCHANGED <<fn, calls, input, before, x, y, z, rgb, header, lines,
                   header_end, points, shown>>

PcGenfromtxt ==
    /\ pc = "pc_genfromtxt"
    /\ LET r == Genfromtxt(SkipHeader(input.lines)) IN
       IF r.err = "none"
       THEN pc' = "pc_index" /\ coords' = r.arr /\ UNCHANGED err
       ELSE Raise(r.err) /\ UNCHANGED coords
    /\ inOpen' = FALSE
    /\ UNCHANGED <<fn, calls, input, disk, before, x, y, z, rgb, header, lines,
                   header_end, points, shown>>

\* x = coords[:, 0]; y = coords[:, 1]; z = coords[:, 2]
PcIndex ==
    /\ pc = "pc_index"
    /\ IF CanIndexColumn(coords, 0) /\ CanIndexColumn(coords, 1)
            /\ CanIndexColumn(coords, 2)
       THEN /\ pc' = "pc_header"
            /\ x' = Column(coords, 0)
            /\ y' = Column(coords, 1)
            /\ z' = Column(coords, 2)
            /\ UNCHANGED err
       ELSE Raise("IndexError") /\ UNCHANGED <<x, y, z>>
    /\ UNCHANGED <<fn, calls, input, inOpen, disk, before, coords, rgb, header,
                   lines, header_end, points, shown>>

\* ply_header = '... element vertex %d ...' % x.shape[0]
PcVertexCount(xs) == PyInt(Len(xs))

PcHeader ==
    /\ pc = "pc_header"
    /\ LET n == PercentD(PcVertexCount(x)) IN
       IF n.err = "none"
       THEN /\ pc' = "pc_savetxt"
            /\ header' = PlyHeaderXYZ(n.txt) \o <<EndHeader>>
            /\ UNCHANGED err
       ELSE Raise(n.err) /\ UNCHANGED header
    /\ UNCHANGED <<fn, calls, input, inOpen, disk, before, coords, x, y, z, rgb,
                   lines, header_end, points, shown>>

\* np.savetxt(output_file, np.column_stack((x, y, z)), fmt='%f %f %f', ...)
PcSavetxt ==
    /\ pc = "pc_savetxt"
    /\ disk' = SavetxtXYZ(ColumnStack(<<x, y, z>>), header)
    /\ pc' = "idle"
    /\ UNCHANGED <<fn, calls, input, inOpen, before, err, locals>>

\* ------------------------------------------ save_trajectory_from_ORB_SLAM
CallTrajectory ==
    /\ calls = <<>>
    /\ \E f \in TrajectoryFiles : Enter("trajectory", "tr_open", f)

\* with open(input_file, "r") as file:
TrOpen ==
    /\ pc = "tr_open"
    /\ IF input.exists
       THEN pc' = "tr_readlines" /\ inOpen' = TRUE /\ UNCHANGED err
       ELSE Raise("FileNotFoundError") /\ UNCHANGED inOpen
    /\ UNCHANGED <<fn, calls, input, disk, before, locals>>

\* lines = file.readlines(), and the with block closes the file.
TrReadlines ==
    /\ pc = "tr_readlines"
    /\ lines' = input.lines
    /\ inOpen' = FALSE
    /\ pc' = "tr_parse"
    /\ UNCHANGED <<fn, calls, input, disk, before, err, coords, x, y, z, rgb,
                   header, header_end, points, shown>>

\* cols = line.strip().split(" ")
PoseCols(line) == Split(Strip(line), SP)

\* float(cols[4]), float(cols[8]), float(cols[12]) in this order: the first
\* index out of range or the first text float() rejects ends the call.
RECURSIVE ColsError(_, _)
ColsError(cols, idx) ==
    IF idx = <<>> THEN "none"
    ELSE IF Len(cols) <= Head(idx) THEN "IndexError"
    ELSE IF ~PyFloat(cols[Head(idx) + 1]).ok THEN "ValueError"
    ELSE ColsError(cols, Tail(idx))

PoseError(line) == ColsError(PoseCols(line), <<TxCol, TyCol, TzCol>>)
PoseCoord(line, c) == PyFloat(PoseCols(line)[c + 1]).val

\* for line in lines: ... x.append(...); y.append(...); z.append(...)
TrParse ==
    /\ pc = "tr_parse"
    /\ IF \E i \in 1..Len(lines) : PoseError(lines[i]) # "none"
       THEN /\ LET i == CHOOSE n \in 1..Len(lines) :
                            /\ PoseError(lines[n]) # "none"
                            /\ \A j \in 1..(n - 1) : PoseError(lines[j]) = "none"
               IN Raise(PoseError(lines[i]))
            /\ UNCHANGED <<x, y, z>>
       ELSE /\ pc' = "tr_arrays"
            /\ x' = [i \in 1..Len(lines) |-> PoseCoord(lines[i], TxCol)]
            /\ y' = [i \in 1..Len(lines) |-> PoseCoord(lines[i], TyCol)]
            /\ z' = [i \in 1..Len(lines) |-> PoseCoord(lines[i], TzCol)]
            /\ UNCHANGED err
    /\ UNCHANGED <<fn, calls, input, inOpen, disk, before, coords, rgb, header,
                   lines, header_end, points, shown>>

\* r = np.ones_like(x) * 144; g = ... * 238; b = ... * 144
OnesLikeTimes(xs, c) == [i \in 1..Len(xs) |-> Flt(c * Micro)]

TrArrays ==
    /\ pc = "tr_arrays"
    /\ rgb' = <<OnesLikeTimes(x, LightGreenR), OnesLikeTimes(x, LightGreenG),
                OnesLikeTimes(x, LightGreenB)>>
    /\ pc' = "tr_header"
    /\ UNCHANGED <<fn, calls, input, inOpen, disk, before, err, coords, x, y, z,
                   header, lines, header_end, points, shown>>

\* ply_header = '... element vertex %d ...' % x.shape, x being 1-D
\* % shape of the stacked (N, 6) array instead of the 1-D x.
TrVertexCountStacked(xs) == PyTuple(<<Len(xs), 6>>)
TrVertexCount(xs) == PyTuple(<<Len(xs)>>)

TrHeader ==
    /\ pc = "tr_header"
    /\ LET n == PercentD(TrVertexCount(x)) IN
       IF n.err = "none"
       THEN /\ pc' = "tr_savetxt"
            /\ header' = PlyHeaderXYZ(n.txt) \o PlyHeaderRGB \o <<EndHeader>>
            /\ UNCHANGED err
       ELSE Raise(n.err) /\ UNCHANGED header
    /\ UNCHANGED <<fn, calls, input, inOpen, disk, before, coords, x, y, z, rgb,
                   lines, header_end, points, shown>>

\* np.savetxt(output_file, np.column_stack((x, y, z, r, g, b)), ...)
TrSavetxt ==
    /\ pc = "tr_savetxt"
    /\ disk' = SavetxtXYZRGB(ColumnStack(<<x, y, z>> \o rgb), header)
    /\ pc' = "idle"
    /\ UNCHANGED <<fn, calls, input, inOpen, before, err, locals>>

\* ---------------------------------------------------- plot_3d_point_cloud
\* The viewer reads the file at the output path.
CallPlot ==
    /\ \A i \in 1..Len(calls) : calls[i] # "plot"
    /\ Enter("plot", "pl_open", input)

\* with open(ply_file, "r") as file:
PlOpen ==
    /\ pc = "pl_open"
    /\ IF disk.exists
       THEN pc' = "pl_readlines" /\ inOpen' = TRUE /\ UNCHANGED err
       ELSE Raise("FileNotFoundError") /\ UNCHANGED inOpen
    /\ UNCHANGED <<fn, calls, input, disk, before, locals>>

PlReadlines ==
    /\ pc = "pl_readlines"
    /\ lines' = disk.lines
    /\ inOpen' = FALSE
    /\ pc' = "pl_scan"
    /\ UNCHANGED <<fn, calls, input, disk, before, err, coords, x, y, z, rgb,
                   header, header_end, points, shown>>

\* header_end = i + 1 for the first line that is "end_header" once stripped,
\* and stays 0 when there is none.
IsEndHeader(line) == Strip(line) = EndHeader
HeaderEnd(ls) ==
    IF \E i \in 1..Len(ls) : IsEndHeader(ls[i])
    THEN CHOOSE i \in 1..Len(ls) :
             IsEndHeader(ls[i]) /\ \A j \in 1..(i - 1) : ~IsEndHeader(ls[j])
    ELSE 0

PlScan ==
    /\ pc = "pl_scan"
    /\ header_end' = HeaderEnd(lines)
    /\ pc' = "pl_loadtxt"
    /\ UNCHANGED <<fn, calls, input, inOpen, disk, before, err, coords, x, y, z,
                   rgb, header, lines, points, shown>>

\* points = np.loadtxt(lines[header_end:], dtype=np.float32)
Body(ls, skip) == SubSeq(ls, skip + 1, Len(ls))

PlLoadtxt ==
    /\ pc = "pl_loadtxt"
    /\ LET r == Loadtxt(Body(lines, header_end)) IN
       IF r.err = "none"
       THEN pc' = "pl_index" /\ points' = r.arr /\ UNCHANGED err
       ELSE Raise(r.err) /\ UNCHANGED points
    /\ UNCHANGED <<fn, calls, input, inOpen, disk, before, coords, x, y, z, rgb,
                   header, lines, header_end, shown>>

\* x, y, z = points[:, 0], points[:, 1], points[:, 2]
PlIndex ==
    /\ pc = "pl_index"
    /\ IF CanIndexColumn(points, 0) /\ CanIndexColumn(points, 1)
            /\ CanIndexColumn(points, 2)
       THEN /\ pc' = "pl_show"
            /\ x' = Column(points, 0)
            /\ y' = Column(points, 1)
            /\ z' = Column(points, 2)
            /\ UNCHANGED err
       ELSE Raise("IndexError") /\ UNCHANGED <<x, y, z>>
    /\ UNCHANGED <<fn, calls, input, inOpen, disk, before, coords, rgb, header,
                   lines, header_end, points, shown>>

\* ax.scatter(x, y, z, ...); plt.show()
PlShow ==
    /\ pc = "pl_show"
    /\ shown' = TRUE
    /\ pc' = "idle"
    /\ UNCHANGED <<fn, calls, input, inOpen, disk, before, err, coords, x, y, z,
                   rgb, header, lines, header_end, points>>

\* ---------------------------------------------------------- specification
Next ==
    \/ CallPointcloud \/ PcOpen \/ PcGenfromtxt \/ PcIndex \/ PcHeader \/ PcSavetxt
    \/ CallTrajectory \/ TrOpen \/ TrReadlines \/ TrParse \/ TrArrays \/ TrHeader
    \/ TrSavetxt
    \/ CallPlot \/ PlOpen \/ PlReadlines \/ PlScan \/ PlLoadtxt \/ PlIndex \/ PlShow

Spec == Init /\ [][Next]_vars

\* ------------------------------------------------- vocabulary of the claims
Returned(f) == fn = f /\ pc = "idle"
Completed(f) == Returned(f) /\ err = "none"
ParseErrors == {"ValueError", "IndexError"}

\* A float32 rounded to 6 decimals (millionths).
Micro6(g) ==
    IF g.m = 0 THEN 0
    ELSE LET q == g.m \div 2^(g.s)
             r == g.m % 2^(g.s)
         IN q * F32Grid + ((r * F32Grid + 2^(g.s - 1)) \div 2^(g.s))

\* The tokens of a line, in order (tokens are never adjacent in the inputs).
Tokens(line) == SelectSeq(line, IsToken)
IsNumeric(tok) == tok.k \in {"dec", "int"}
Value(tok) == IF tok.k = "int" THEN tok.v * Micro ELSE tok.v

\* A written PLY file: the count its "element vertex" line declares, and the
\* lines after its first end_header line.
IsElementLine(line) ==
    /\ Len(Tokens(line)) = 3
    /\ Tokens(line)[1] = Word("element")
    /\ Tokens(line)[2] = Word("vertex")
HasEndHeader(file) == \E i \in 1..Len(file.lines) : IsEndHeader(file.lines[i])
BodyOf(file) == Body(file.lines, HeaderEnd(file.lines))
DeclaresCount(file, n) ==
    /\ HasEndHeader(file)
    /\ \E i \in 1..(HeaderEnd(file.lines) - 1) :
           /\ IsElementLine(file.lines[i])
           /\ file.lines[i] = Spaced(<<Word("element"), Word("vertex"), IntTxt(n)>>)
    /\ \A i \in 1..(HeaderEnd(file.lines) - 1) :
           IsElementLine(file.lines[i]) => Tokens(file.lines[i])[3] = IntTxt(n)
PropertyNames(file) ==
    LET props == SelectSeq(SubSeq(file.lines, 1, HeaderEnd(file.lines)),
                           LAMBDA l : Len(Tokens(l)) = 3 /\ Tokens(l)[1] = Word("property"))
    IN [i \in 1..Len(props) |-> Tokens(props[i])[3].s]

\* Map-point files: the rows after the header line and their fields.
MapDataLines(file) == SkipHeader(file.lines)
MapFieldsOf(line) == Tokens(line)
ValidMapRow(line) ==
    /\ Len(MapFieldsOf(line)) >= 3
    /\ line = Join(MapFieldsOf(line), DELIM)
    /\ \A j \in 1..Len(MapFieldsOf(line)) : IsNumeric(MapFieldsOf(line)[j])
ValidMapInput(file) ==
    /\ file.exists
    /\ Len(file.lines) >= 1
    /\ \A i \in 1..Len(MapDataLines(file)) : ValidMapRow(MapDataLines(file)[i])

\* Trajectory files.
NTokens == TzCol + 1
NumericTranslation(line) ==
    /\ IsNumeric(Tokens(line)[TxCol + 1])
    /\ IsNumeric(Tokens(line)[TyCol + 1])
    /\ IsNumeric(Tokens(line)[TzCol + 1])
\* 13 tokens separated by runs of spaces or tabs.
WsPose(line) == Len(Tokens(line)) = NTokens /\ NumericTranslation(line)
\* 13 tokens separated by single spaces, as in the docstring of the converter.
DocPose(line) == WsPose(line) /\ Strip(line) = Join(Tokens(line), SP)
ValidTrajectoryInput(file) ==
    file.exists /\ \A i \in 1..Len(file.lines) : DocPose(file.lines[i])

\* ---------------------------------------------------------------- claims

\* C1: for every valid map-point input (a header line and N >= 0 rows of at
\* least 3 numeric fields), save_pointcloud_from_ORB_SLAM completes and the
\* written file declares "element vertex N" and has exactly N body lines.
C1_PointcloudHeaderMatchesBody ==
    (Returned("pointcloud") /\ ValidMapInput(input)) =>
        /\ err = "none"
        /\ disk.exists
        /\ DeclaresCount(disk, Len(MapDataLines(input)))
        /\ Len(BodyOf(disk)) = Len(MapDataLines(input))

\* C2: for every trajectory input of N >= 0 pose lines in the documented
\* layout, save_trajectory_from_ORB_SLAM completes; the header is built, with
\* the single integer N in its "element vertex" line, while the output is
\* still untouched; and the written file declares N, lists the properties
\* x y z red green blue, and has N body lines of three decimals followed by
\* three integers.
SixFields(line) ==
    /\ line = Spaced(Tokens(line))
    /\ [j \in 1..Len(Tokens(line)) |-> Tokens(line)[j].k]
           = <<"dec", "dec", "dec", "int", "int", "int">>

C2_TrajectoryHeaderMatchesBody ==
    (fn = "trajectory" /\ ValidTrajectoryInput(input)) =>
        /\ err = "none"
        /\ pc = "tr_savetxt" =>
               /\ disk = before
               /\ header[3] = Spaced(<<Word("element"), Word("vertex"),
                                       IntTxt(Len(input.lines))>>)
        /\ pc = "idle" =>
               /\ disk.exists
               /\ disk.lines[1] = <<Word("ply")>>
               /\ DeclaresCount(disk, Len(input.lines))
               /\ PropertyNames(disk) = <<"x", "y", "z", "red", "green", "blue">>
               /\ Len(BodyOf(disk)) = Len(input.lines)
               /\ \A i \in 1..Len(BodyOf(disk)) : SixFields(BodyOf(disk)[i])

C2_Witness ==
    /\ Completed("trajectory")
    /\ ValidTrajectoryInput(input)
    /\ Len(input.lines) = 1
    /\ Len(BodyOf(disk)) = 1

\* C3: round trip.  For map-point rows of 6-decimal numbers, the converter
\* followed by the reading part of the viewer recovers one triple per input
\* row, in order, equal at 6 decimals to the first three fields of the row.
MapField(file, i, j) == Value(MapFieldsOf(MapDataLines(file)[i])[j])

C3_RoundTrip ==
    (Returned("plot") /\ calls = <<"pointcloud", "plot">> /\ ValidMapInput(input)) =>
        /\ err = "none"
        /\ Len(x) = Len(MapDataLines(input))
        /\ \A i \in 1..Len(x) :
               /\ ~x[i].nan /\ ~y[i].nan /\ ~z[i].nan
               /\ Micro6(x[i]) = MapField(input, i, 1)
               /\ Micro6(y[i]) = MapField(input, i, 2)
               /\ Micro6(z[i]) = MapField(input, i, 3)

\* C4: for every trajectory line of 13 tokens separated by runs of spaces or
\* tabs, the converter emits the point formed by the 4th, 8th and 12th token
\* after the image path.
PoseToken(file, i, c) == Value(Tokens(file.lines[i])[c + 1])

C4_TranslationExtraction ==
    (Returned("trajectory") /\ input.exists
         /\ \A i \in 1..Len(input.lines) : WsPose(input.lines[i])) =>
        /\ err = "none"
        /\ Len(x) = Len(input.lines)
        /\ \A i \in 1..Len(x) :
               /\ x[i] = Flt(PoseToken(input, i, TxCol))
               /\ y[i] = Flt(PoseToken(input, i, TyCol))
               /\ z[i] = Flt(PoseToken(input, i, TzCol))

\* C5: when the file has no line that is "end_header" once stripped, the
\* viewer fails, parses no line as vertex data and draws nothing.
C5_NoEndHeaderFails ==
    (Returned("plot") /\ disk.exists /\ ~HasEndHeader(disk)) =>
        /\ err # "none"
        /\ points = NoArray
        /\ x = <<>>
        /\ ~shown

\* C6: when a data row of the map-point file has fewer than 3 fields, be it
\* the only short row or one of only short rows, the converter fails with a
\* parse error and the output file is not written.
ShortRow(line) == NotBlank(line) /\ Len(MapFieldsOf(line)) < 3
HasShortRow(file) ==
    \E i \in 1..Len(MapDataLines(file)) : ShortRow(MapDataLines(file)[i])

C6_ShortRowFails ==
    (Returned("pointcloud") /\ input.exists /\ HasShortRow(input)) =>
        /\ err \in ParseErrors
        /\ disk = before

C6_Witness ==
    /\ Returned("pointcloud")
    /\ HasShortRow(input)
    /\ Len(MapDataLines(input)) = 3
    /\ ValidMapRow(MapDataLines(input)[1])
    /\ ValidMapRow(MapDataLines(input)[2])
    /\ err = "ValueError"
    /\ before.exists /\ disk = before

\* C7: when one of the first three fields of a data row is not numeric, the
\* converter fails: no value is put in place of the field and no vertex line
\* of that row is written.
BadRow(line) ==
    /\ Len(MapFieldsOf(line)) >= 3
    /\ \E j \in 1..3 : ~IsNumeric(MapFieldsOf(line)[j])
HasBadRow(file) ==
    \E i \in 1..Len(MapDataLines(file)) : BadRow(MapDataLines(file)[i])

C7_NonNumericFieldFails ==
    (Returned("pointcloud") /\ input.exists /\ HasBadRow(input)) =>
        /\ err \in ParseErrors
        /\ disk = before

\* C8: the trajectory converter fails with a parse error whenever a line
\* (a blank one included) has fewer than 13 whitespace-separated tokens or a
\* non-numeric token at a translation position, and lines of 13
\* whitespace-separated tokens with numeric translations never make it fail.
C8_TrajectoryParseErrors ==
    (Returned("trajectory") /\ input.exists) =>
        /\ (\E i \in 1..Len(input.lines) : ~WsPose(input.lines[i]))
               => err \in ParseErrors
        /\ (\A i \in 1..Len(input.lines) : WsPose(input.lines[i]))
               => err = "none"

\* C9: for a PLY file with an end_header line followed by N >= 0 uniformly
\* numeric lines of at least 3 columns, the viewer takes the lines after the
\* first end_header line as the body and obtains N triples, the first three
\* columns of each body line, in order.
NumericLine(line) ==
    /\ Len(Tokens(line)) >= 3
    /\ \A j \in 1..Len(Tokens(line)) : IsNumeric(Tokens(line)[j])
UniformBody(file) ==
    /\ \A i \in 1..Len(BodyOf(file)) : NumericLine(BodyOf(file)[i])
    /\ \A i \in 1..Len(BodyOf(file)) :
           Len(Tokens(BodyOf(file)[i])) = Len(Tokens(BodyOf(file)[1]))
\* The float32 nearest to a column of a body line.
BodyValue(file, i, j) == F32(Flt(Value(Tokens(BodyOf(file)[i])[j])))

C9_ViewerReadsBody ==
    (Returned("plot") /\ disk.exists /\ HasEndHeader(disk) /\ UniformBody(disk)) =>
        /\ err = "none"
        /\ Len(x) = Len(BodyOf(disk))
        /\ \A i \in 1..Len(x) :
               /\ x[i] = BodyValue(disk, i, 1)
               /\ y[i] = BodyValue(disk, i, 2)
               /\ z[i] = BodyValue(disk, i, 3)

\* C10: in both converters the output path is written only after all reading,
\* parsing and coordinate extraction is done: when a converter fails the file
\* at the output path is the one that was there before the call, and the
\* input file is no longer open.
Converters == {"pointcloud", "trajectory"}

C10_FailureLeavesOutputUntouched ==
    fn \in Converters =>
        /\ (pc = "idle" /\ err # "none") => (disk = before /\ ~inOpen)
        /\ disk # before => (pc = "idle" /\ err = "none")

C10_Witness ==
    /\ Returned("trajectory")
    /\ err \in ParseErrors
    /\ before.exists
    /\ disk = before
    /\ ~inOpen

====
